---- MODULE Spec2Model ----
(***************************************************************************)
(* Model of managed-command (src/src/lib.rs): Command::run spawns a child  *)
(* process with piped stdio, starts a stdin relay, a stdout relay, a       *)
(* stderr relay and a cancellation watcher thread, and returns the three   *)
(* channel handles.  The caller, the child process and the broadcaster are *)
(* the environment.                                                        *)
(***************************************************************************)
EXTENDS Integers, Sequences, FiniteSets, TLC

\* ------------------------------------------------------------------ bounds
\* chunks whose content is recorded in the history variables
MaxSends == 2
\* chunks the caller lets wait in the stdin channel
MaxQueue == 2
\* write calls the child makes on its stdout and stderr together
MaxProcWrites == 2
\* cancellation events the broadcaster publishes
MaxBroadcasts == 2
\* bytes of a small write of the child
SmallWrite == 2

\* ------------------------------------------------------- program constants
\* let mut buf: [u8; 128]
BufSize == 128

Streams == {"out", "err"}

\* ----------------------------------------------------------- pure helpers
Min(a, b) == IF a < b THEN a ELSE b

IsPrefix(p, s) == Len(p) <= Len(s) /\ SubSeq(s, 1, Len(p)) = p

\* A String is the sequence of its code points.  Bytes are 0..255.
ReplacementChar == 65533

\* UTF-8 encoding of one code point below U+0800.
Utf8(c) == IF c < 128 THEN <<c>> ELSE <<192 + (c \div 64), 128 + (c % 64)>>

RECURSIVE as_bytes_from(_, _)
as_bytes_from(text, i) ==
    IF i > Len(text) THEN <<>> ELSE Utf8(text[i]) \o as_bytes_from(text, i + 1)

\* stdin_text.as_bytes(): the UTF-8 bytes of the String.
as_bytes(text) == as_bytes_from(text, 1)

\* The byte at i starts a two-byte character (the child of this model emits
\* no three- or four-byte character).
IsLead2(b, i) ==
    /\ b[i] >= 194 /\ b[i] <= 223 /\ i < Len(b)
    /\ b[i + 1] >= 128 /\ b[i + 1] <= 191

\* the first index from i on of a byte that is not ASCII, or 0
FirstNonAscii(b, i) ==
    LET high == {k \in i..Len(b) : b[k] >= 128}
    IN IF high = {} THEN 0 ELSE CHOOSE k \in high : \A j \in high : k <= j

RECURSIVE from_utf8_lossy_from(_, _)
from_utf8_lossy_from(b, i) ==
    IF i > Len(b) THEN <<>>
    ELSE LET k == FirstNonAscii(b, i)
         IN IF k = 0 THEN SubSeq(b, i, Len(b))
            ELSE IF IsLead2(b, k)
            THEN SubSeq(b, i, k - 1) \o <<(b[k] - 192) * 64 + (b[k + 1] - 128)>>
                 \o from_utf8_lossy_from(b, k + 2)
            ELSE SubSeq(b, i, k - 1) \o <<ReplacementChar>>
                 \o from_utf8_lossy_from(b, k + 1)

\* String::from_utf8_lossy(&buf[0..read_bytes]).into_owned(): the valid
\* runs are kept, ASCII bytes as themselves and a two-byte sequence as its
\* code point, and every byte that starts no valid sequence becomes U+FFFD.
from_utf8_lossy(b) == from_utf8_lossy_from(b, 1)

RECURSIVE ConcatBytes(_)
ConcatBytes(texts) ==
    IF texts = <<>> THEN <<>> ELSE as_bytes(Head(texts)) \o ConcatBytes(Tail(texts))

DecodeAll(chunks) == [i \in 1..Len(chunks) |-> from_utf8_lossy(chunks[i])]

\* ------------------------------------------------------------ environment
\* The j-th byte the child writes on stream s: ASCII letters, a two-byte
\* character (0xC3 0xA9) at offsets 128/129 (straddling the first full
\* buffer) and a byte that is never valid UTF-8 (0xFF) at offset 130.
ProcByte(s, j) ==
    IF j = BufSize THEN 195
    ELSE IF j = BufSize + 1 THEN 169
    ELSE IF j = BufSize + 2 THEN 255
    ELSE (IF s = "out" THEN 97 ELSE 65) + (j % 26)

\* sizes of the child's write calls: a few bytes, or more than one buffer
BigWrite == BufSize + 2
WriteSizes == {SmallWrite, BigWrite}

\* everything the child can write on each stream
ChildOutput ==
    [s \in Streams |-> [j \in 1..(MaxProcWrites * BigWrite) |-> ProcByte(s, j)]]

\* What the environment of one run does: the calls the caller's program
\* makes on the handles and on the Broadcaster, what the child's program
\* does, and whether the operating system interrupts a pipe read.
StdinUser  == {"send", "send_empty", "drop_stdin", "close_stdin", "exit", "broadcast"}
OutputUser == {"recv", "write_big", "exit", "broadcast"}
Dropper    == {"drop_out", "write", "send", "broadcast"}
Canceller  == {"broadcast", "drop_broadcaster", "exit", "read_error"}
Envs == {StdinUser, OutputUser, Dropper, Canceller}

VARIABLES
    env,          \* what the caller, the child and the system do in this run
    runPc,        \* position of Command::run
    child,        \* the child process: "none", "running", "exited", "killed"
    stdinOpen,    \* the child holds the read end of its stdin pipe open
    outOpen,      \* [Streams -> BOOLEAN]: the child holds the write end open
    produced,     \* [Streams -> Nat]: bytes the child has written to the pipe
    consumed,     \* [Streams -> Nat]: bytes the relay has read from the pipe
    procWrites,   \* write calls the child has made
    tx_in,        \* the stdin Sender is alive
    rx_in,        \* the stdin Receiver is alive
    chan_in,      \* the stdin channel's queue
    stdinPc,      \* stdin relay: "none", "recv", "write", "exited", "panicked"
    stdin_text,   \* the chunk the stdin relay is writing
    tx_out,       \* [Streams -> BOOLEAN]: the relay's Sender is alive
    rx_out,       \* [Streams -> BOOLEAN]: the caller's Receiver is alive
    chan_out,     \* [Streams -> Seq(String)]: the channel's queue
    outPc,        \* [Streams -> {"none", "read", "send", "exited"}]
    buf,          \* [Streams -> bytes]: buf[0..read_bytes] of the last read
    cancPc,       \* watcher: "none", "recv", "kill", "exited"
    broadcaster,  \* the Broadcaster is alive
    events,       \* events published and not yet received by the Subscriber
    broadcasts,   \* events published so far
    kills,        \* calls of pid.kill()
    accepted,     \* history: non-empty chunks accepted by StdinSender::send
    pipeIn,       \* history: bytes written to the child's stdin pipe
    readLog,      \* [Streams -> Seq(bytes)]: history of the relay's reads
    got,          \* [Streams -> Seq(String)]: history of the caller's recv
    lastSend,     \* result of the last StdinSender::send: "none", "ok", "err"
    lastRecv      \* [Streams -> result of the last recv]

procVars == <<child, stdinOpen, outOpen, produced, procWrites>>
inVars   == <<tx_in, rx_in, chan_in, stdinPc, stdin_text, accepted, pipeIn, lastSend>>
outVars  == <<consumed, tx_out, rx_out, chan_out, outPc, buf, readLog, got, lastRecv>>
cancVars == <<cancPc, broadcaster, events, broadcasts, kills>>
vars == <<env, runPc, procVars, inVars, outVars, cancVars>>

Init ==
    /\ env \in Envs
    /\ runPc = "idle"
    /\ child = "none"
    /\ stdinOpen = FALSE
    /\ outOpen = [s \in Streams |-> FALSE]
    /\ produced = [s \in Streams |-> 0]
    /\ consumed = [s \in Streams |-> 0]
    /\ procWrites = 0
    /\ tx_in = FALSE
    /\ rx_in = FALSE
    /\ chan_in = <<>>
    /\ stdinPc = "none"
    /\ stdin_text = <<>>
    /\ tx_out = [s \in Streams |-> FALSE]
    /\ rx_out = [s \in Streams |-> FALSE]
    /\ chan_out = [s \in Streams |-> <<>>]
    /\ outPc = [s \in Streams |-> "none"]
    /\ buf = [s \in Streams |-> <<>>]
    /\ cancPc = "none"
    /\ broadcaster = TRUE
    /\ events = 0
    /\ broadcasts = 0
    /\ kills = 0
    /\ accepted = <<>>
    /\ pipeIn = <<>>
    /\ readLog = [s \in Streams |-> <<>>]
    /\ got = [s \in Streams |-> <<>>]
    /\ lastSend = "none"
    /\ lastRecv = [s \in Streams |-> "none"]

\* ------------------------------------------------------------ Command::run
\* get_program().to_owned().into_string().unwrap(), then the three channels.
\* validName: the program name is valid Unicode.
RunPrepare(validName) ==
    /\ runPc = "idle"
    /\ IF validName
       THEN /\ runPc' = "spawn"
            /\ tx_in' = TRUE
            /\ rx_in' = TRUE
            /\ tx_out' = [s \in Streams |-> TRUE]
            /\ rx_out' = [s \in Streams |-> TRUE]
       ELSE /\ runPc' = "panicked"
            /\ UNCHANGED <<tx_in, rx_in, tx_out, rx_out>>
    /\ UNCHANGED <<env, procVars, chan_in, stdinPc, stdin_text, accepted, pipeIn, lastSend,
                   consumed, chan_out, outPc, buf, readLog, got, lastRecv, cancVars>>

\* .stdin(piped).stdout(piped).stderr(piped).spawn()?
RunSpawn(ok) ==
    /\ runPc = "spawn"
    /\ IF ok
       THEN /\ runPc' = "stdin"
            /\ child' = "running"
            /\ stdinOpen' = TRUE
            /\ outOpen' = [s \in Streams |-> TRUE]
            /\ UNCHANGED <<tx_in, rx_in, tx_out, rx_out>>
       ELSE \* Err(Error::IoError): the locals of run are dropped
            /\ runPc' = "failed"
            /\ tx_in' = FALSE
            /\ rx_in' = FALSE
            /\ tx_out' = [s \in Streams |-> FALSE]
            /\ rx_out' = [s \in Streams |-> FALSE]
            /\ UNCHANGED <<child, stdinOpen, outOpen>>
    /\ UNCHANGED <<env, produced, procWrites, chan_in, stdinPc, stdin_text, accepted, pipeIn,
                   lastSend, consumed, chan_out, outPc, buf, readLog, got, lastRecv,
                   cancVars>>

\* if let Some(stdin) = pid.stdin.take() { thread::spawn(..) }: a piped
\* stdin is always present after a successful spawn.
RunSpawnStdin ==
    /\ runPc = "stdin"
    /\ runPc' = "stdout"
    /\ stdinPc' = "recv"
    /\ UNCHANGED <<env, procVars, tx_in, rx_in, chan_in, stdin_text, accepted, pipeIn, lastSend,
                   outVars, cancVars>>

RunPcOf(s) == IF s = "out" THEN "stdout" ELSE "stderr"
RunPcAfter(s) == IF s = "out" THEN "stderr" ELSE "canceller"

\* if let Some(stdout) = pid.stdout.take() { thread::spawn(..) }, and stderr
RunSpawnOut(s) ==
    /\ runPc = RunPcOf(s)
    /\ runPc' = RunPcAfter(s)
    /\ outPc' = [outPc EXCEPT ![s] = "read"]
    /\ UNCHANGED <<env, procVars, inVars, consumed, tx_out, rx_out, chan_out, buf, readLog, got,
                   lastRecv, cancVars>>

\* thread::spawn(move || { if let Ok(_) = canceller.recv() .. })
RunSpawnCanceller ==
    /\ runPc = "canceller"
    /\ runPc' = "ret"
    /\ cancPc' = "recv"
    /\ UNCHANGED <<env, procVars, inVars, outVars, broadcaster, events, broadcasts, kills>>

\* mutant of RunReturn: run joins the stdin relay's thread before it returns
RunReturnJoinsStdin ==
    /\ runPc = "ret"
    /\ stdinPc \in {"exited", "panicked"}
    /\ runPc' = "returned"
    /\ UNCHANGED <<env, procVars, inVars, outVars, cancVars>>

\* Ok((StdinSender(tx_in), StdoutReceiver(rx_out), StderrReceiver(rx_err)))
RunReturn ==
    /\ runPc = "ret"
    /\ runPc' = "returned"
    /\ UNCHANGED <<env, procVars, inVars, outVars, cancVars>>

\* ------------------------------------------------------------ stdin relay
\* mutant of StdinRecv: the relay takes the newest queued chunk
StdinRecvNewest ==
    /\ stdinPc = "recv"
    /\ chan_in /= <<>>
    /\ stdin_text' = chan_in[Len(chan_in)]
    /\ chan_in' = SubSeq(chan_in, 1, Len(chan_in) - 1)
    /\ stdinPc' = "write"
    /\ UNCHANGED <<env, runPc, procVars, tx_in, rx_in, accepted, pipeIn, lastSend, outVars,
                   cancVars>>

\* rx_in.recv() returns Ok(stdin_text)
StdinRecv ==
    /\ stdinPc = "recv"
    /\ chan_in /= <<>>
    /\ stdin_text' = Head(chan_in)
    /\ chan_in' = Tail(chan_in)
    /\ stdinPc' = "write"
    /\ UNCHANGED <<env, runPc, procVars, tx_in, rx_in, accepted, pipeIn, lastSend, outVars,
                   cancVars>>

\* mutant of StdinRecvClosed: the relay calls recv again after the error
StdinRecvClosedRetries ==
    /\ stdinPc = "recv"
    /\ chan_in = <<>>
    /\ ~tx_in
    /\ UNCHANGED vars

\* mutant of StdinRecvClosed: the relay checks for the dropped Sender before
\* the queue, and leaves what is still queued unwritten
StdinRecvClosedDropsQueue ==
    /\ stdinPc = "recv"
    /\ ~tx_in
    /\ stdinPc' = "exited"
    /\ rx_in' = FALSE
    /\ chan_in' = <<>>
    /\ UNCHANGED <<env, runPc, procVars, tx_in, stdin_text, accepted, pipeIn, lastSend,
                   outVars, cancVars>>

\* mutant of StdinRecvClosed: the relay also gives up waiting once the child
\* is gone
StdinRecvEndsOnExit ==
    /\ stdinPc = "recv"
    /\ chan_in = <<>>
    /\ ~tx_in \/ child \in {"exited", "killed"}
    /\ stdinPc' = "exited"
    /\ rx_in' = FALSE
    /\ UNCHANGED <<env, runPc, procVars, tx_in, chan_in, stdin_text, accepted, pipeIn, lastSend,
                   outVars, cancVars>>

\* rx_in.recv() returns Err: every Sender is gone and the queue is empty.
\* The loop ends; rx_in and the pipe's write end are dropped.
StdinRecvClosed ==
    /\ stdinPc = "recv"
    /\ chan_in = <<>>
    /\ ~tx_in
    /\ stdinPc' = "exited"
    /\ rx_in' = FALSE
    /\ UNCHANGED <<env, runPc, procVars, tx_in, chan_in, stdin_text, accepted, pipeIn, lastSend,
                   outVars, cancVars>>

\* mutant of WriteAllOk: `let _ = stdin.write_all(..)`, a failed write
\* goes unnoticed
WriteErrorIgnored(bytes) == TRUE

\* Write::write_all(bytes): no write call for an empty buffer; a write to
\* a pipe whose read end is closed fails (EPIPE).
WriteAllOk(bytes) == bytes = <<>> \/ stdinOpen

\* mutant of StdinWrite: the failed write ends the thread's loop, but the
\* Receiver outlives it
StdinWriteKeepsReceiver ==
    /\ stdinPc = "write"
    /\ IF WriteAllOk(as_bytes(stdin_text))
       THEN /\ pipeIn' = pipeIn \o as_bytes(stdin_text)
            /\ stdinPc' = "recv"
       ELSE /\ stdinPc' = "panicked"
            /\ pipeIn' = pipeIn
    /\ UNCHANGED <<env, runPc, procVars, tx_in, rx_in, chan_in, stdin_text, accepted, lastSend,
                   outVars, cancVars>>

\* stdin.write_all(stdin_text.as_bytes()).unwrap(): a failed write panics
\* the thread, whose unwinding drops rx_in and the pipe's write end.
StdinWrite ==
    /\ stdinPc = "write"
    /\ IF WriteAllOk(as_bytes(stdin_text))
       THEN /\ pipeIn' = pipeIn \o as_bytes(stdin_text)
            /\ stdinPc' = "recv"
            /\ rx_in' = rx_in
            /\ chan_in' = chan_in
       ELSE /\ stdinPc' = "panicked"
            /\ rx_in' = FALSE
            /\ chan_in' = <<>>
            /\ pipeIn' = pipeIn
    /\ UNCHANGED <<env, runPc, procVars, tx_in, stdin_text, accepted, lastSend, outVars,
                   cancVars>>

\* ------------------------------------------------- stdout / stderr relays
Avail(s) == produced[s] - consumed[s]

\* mutant of OutRead: no `if read_bytes == 0 { break }`, the relay reads
\* again at the end of the stream
OutReadIgnoresEof(s) ==
    /\ outPc[s] = "read"
    /\ Avail(s) > 0
    /\ LET n == Min(Avail(s), BufSize)
           bytes == SubSeq(ChildOutput[s], consumed[s] + 1, consumed[s] + n)
       IN /\ buf' = [buf EXCEPT ![s] = bytes]
          /\ consumed' = [consumed EXCEPT ![s] = @ + n]
          /\ readLog' = [readLog EXCEPT ![s] = Append(@, bytes)]
    /\ outPc' = [outPc EXCEPT ![s] = "send"]
    /\ UNCHANGED <<env, runPc, procVars, inVars, tx_out, rx_out, chan_out, got, lastRecv,
                   cancVars>>

\* mutant of OutRead: the relay reads all the pipe holds (read_to_end into
\* a growing buffer), not at most one buffer
OutReadWholePipe(s) ==
    /\ outPc[s] = "read"
    /\ \/ /\ Avail(s) > 0
          /\ LET n == Avail(s)
                 bytes == SubSeq(ChildOutput[s], consumed[s] + 1, consumed[s] + n)
             IN /\ buf' = [buf EXCEPT ![s] = bytes]
                /\ consumed' = [consumed EXCEPT ![s] = @ + n]
                /\ readLog' = [readLog EXCEPT ![s] = Append(@, bytes)]
          /\ outPc' = [outPc EXCEPT ![s] = "send"]
          /\ UNCHANGED tx_out
       \/ /\ Avail(s) = 0
          /\ ~outOpen[s]
          /\ child /= "none"
          /\ outPc' = [outPc EXCEPT ![s] = "exited"]
          /\ tx_out' = [tx_out EXCEPT ![s] = FALSE]
          /\ UNCHANGED <<buf, consumed, readLog>>
    /\ UNCHANGED <<env, runPc, procVars, inVars, rx_out, chan_out, got, lastRecv, cancVars>>

\* stdout.read(&mut buf) returns Ok(read_bytes): what the pipe holds, at
\* most the buffer; Ok(0) once the pipe is empty and its write end closed.
OutRead(s) ==
    /\ outPc[s] = "read"
    /\ \/ /\ Avail(s) > 0
          /\ LET n == Min(Avail(s), BufSize)
                 bytes == SubSeq(ChildOutput[s], consumed[s] + 1, consumed[s] + n)
             IN /\ buf' = [buf EXCEPT ![s] = bytes]
                /\ consumed' = [consumed EXCEPT ![s] = @ + n]
                /\ readLog' = [readLog EXCEPT ![s] = Append(@, bytes)]
          /\ outPc' = [outPc EXCEPT ![s] = "send"]
          /\ UNCHANGED tx_out
       \/ /\ Avail(s) = 0
          /\ ~outOpen[s]
          /\ child /= "none"
          /\ outPc' = [outPc EXCEPT ![s] = "exited"]
          /\ tx_out' = [tx_out EXCEPT ![s] = FALSE]
          /\ UNCHANGED <<buf, consumed, readLog>>
    /\ UNCHANGED <<env, runPc, procVars, inVars, rx_out, chan_out, got, lastRecv, cancVars>>

\* stdout.read(&mut buf) returns Err (an interrupted read): `while let Ok`
\* ends the loop.
OutReadErr(s) ==
    /\ "read_error" \in env
    /\ outPc[s] = "read"
    /\ outPc' = [outPc EXCEPT ![s] = "exited"]
    /\ tx_out' = [tx_out EXCEPT ![s] = FALSE]
    /\ UNCHANGED <<env, runPc, procVars, inVars, consumed, rx_out, chan_out, buf, readLog, got,
                   lastRecv, cancVars>>

\* mutant of OutSend: `let _ = tx_out.send(..)`, the relay reads on after a
\* failed send
OutSendIgnoresError(s) ==
    /\ outPc[s] = "send"
    /\ chan_out' = IF rx_out[s]
                   THEN [chan_out EXCEPT ![s] = Append(@, from_utf8_lossy(buf[s]))]
                   ELSE chan_out
    /\ outPc' = [outPc EXCEPT ![s] = "read"]
    /\ UNCHANGED <<env, runPc, procVars, inVars, consumed, tx_out, rx_out, buf, readLog, got,
                   lastRecv, cancVars>>

\* mutant of OutSend: the chunk is put at the head of the queue
OutSendFront(s) ==
    /\ outPc[s] = "send"
    /\ IF rx_out[s]
       THEN /\ chan_out' = [chan_out EXCEPT ![s] = <<from_utf8_lossy(buf[s])>> \o @]
            /\ outPc' = [outPc EXCEPT ![s] = "read"]
            /\ UNCHANGED tx_out
       ELSE /\ outPc' = [outPc EXCEPT ![s] = "exited"]
            /\ tx_out' = [tx_out EXCEPT ![s] = FALSE]
            /\ UNCHANGED chan_out
    /\ UNCHANGED <<env, runPc, procVars, inVars, consumed, rx_out, buf, readLog, got, lastRecv,
                   cancVars>>

\* mutant of OutSend: sync_channel(1), the send waits while a chunk is
\* queued
OutSendBlocksWhenFull(s) ==
    /\ outPc[s] = "send"
    /\ IF rx_out[s]
       THEN /\ chan_out[s] = <<>>
            /\ chan_out' = [chan_out EXCEPT ![s] = Append(@, from_utf8_lossy(buf[s]))]
            /\ outPc' = [outPc EXCEPT ![s] = "read"]
            /\ UNCHANGED tx_out
       ELSE /\ outPc' = [outPc EXCEPT ![s] = "exited"]
            /\ tx_out' = [tx_out EXCEPT ![s] = FALSE]
            /\ UNCHANGED chan_out
    /\ UNCHANGED <<env, runPc, procVars, inVars, consumed, rx_out, buf, readLog, got, lastRecv,
                   cancVars>>

\* tx_out.send(stdout_text.into_owned()): fails once the Receiver is dropped
OutSend(s) ==
    /\ outPc[s] = "send"
    /\ IF rx_out[s]
       THEN /\ chan_out' = [chan_out EXCEPT ![s] = Append(@, from_utf8_lossy(buf[s]))]
            /\ outPc' = [outPc EXCEPT ![s] = "read"]
            /\ UNCHANGED tx_out
       ELSE /\ outPc' = [outPc EXCEPT ![s] = "exited"]
            /\ tx_out' = [tx_out EXCEPT ![s] = FALSE]
            /\ UNCHANGED chan_out
    /\ UNCHANGED <<env, runPc, procVars, inVars, consumed, rx_out, buf, readLog, got, lastRecv,
                   cancVars>>

\* ---------------------------------------------------- cancellation watcher
\* mutant of CancRecv: `let _ = canceller.recv();`, the result of the
\* receive is not looked at
CancRecvAnyResult ==
    /\ cancPc = "recv"
    /\ \/ /\ events > 0
          /\ events' = events - 1
       \/ /\ events = 0
          /\ ~broadcaster
          /\ UNCHANGED events
    /\ cancPc' = "kill"
    /\ UNCHANGED <<env, runPc, procVars, inVars, outVars, broadcaster, broadcasts, kills>>

\* canceller.recv(): Ok once an event is published, Err once the
\* Broadcaster is dropped with nothing left to deliver.
CancRecv ==
    /\ cancPc = "recv"
    /\ \/ /\ events > 0
          /\ events' = events - 1
          /\ cancPc' = "kill"
       \/ /\ events = 0
          /\ ~broadcaster
          /\ cancPc' = "exited"
          /\ UNCHANGED events
    /\ UNCHANGED <<env, runPc, procVars, inVars, outVars, broadcaster, broadcasts, kills>>

\* mutant of CancKill: `while let Ok(_) = canceller.recv()`, the watcher
\* waits for the next event after the kill
CancKillLoops ==
    /\ cancPc = "kill"
    /\ kills' = kills + 1
    /\ cancPc' = "recv"
    /\ IF child = "running"
       THEN /\ child' = "killed"
            /\ stdinOpen' = FALSE
            /\ outOpen' = [s \in Streams |-> FALSE]
       ELSE UNCHANGED <<child, stdinOpen, outOpen>>
    /\ UNCHANGED <<env, runPc, produced, procWrites, inVars, outVars, broadcaster, events,
                   broadcasts>>

\* mutant of CancKill: pid.kill().unwrap(), a kill that fails because the
\* child is gone panics the watcher
CancKillUnwraps ==
    /\ cancPc = "kill"
    /\ IF child = "running"
       THEN /\ child' = "killed"
            /\ stdinOpen' = FALSE
            /\ outOpen' = [s \in Streams |-> FALSE]
            /\ kills' = kills + 1
            /\ cancPc' = "exited"
       ELSE /\ cancPc' = "panicked"
            /\ UNCHANGED <<child, stdinOpen, outOpen, kills>>
    /\ UNCHANGED <<env, runPc, produced, procWrites, inVars, outVars, broadcaster, events,
                   broadcasts>>

\* mutant of CancKill: the watcher also closes the output channels once it
\* has killed the child
CancKillClosesOutput ==
    /\ cancPc = "kill"
    /\ kills' = kills + 1
    /\ cancPc' = "exited"
    /\ tx_out' = [s \in Streams |-> FALSE]
    /\ IF child = "running"
       THEN /\ child' = "killed"
            /\ stdinOpen' = FALSE
            /\ outOpen' = [s \in Streams |-> FALSE]
       ELSE UNCHANGED <<child, stdinOpen, outOpen>>
    /\ UNCHANGED <<env, runPc, produced, procWrites, inVars, consumed, rx_out, chan_out, outPc,
                   buf, readLog, got, lastRecv, broadcaster, events, broadcasts>>

\* let _ = pid.kill(); then the thread ends.  Killing closes every pipe end
\* the child holds; a kill of a child that is gone changes nothing.
CancKill ==
    /\ cancPc = "kill"
    /\ kills' = kills + 1
    /\ cancPc' = "exited"
    /\ IF child = "running"
       THEN /\ child' = "killed"
            /\ stdinOpen' = FALSE
            /\ outOpen' = [s \in Streams |-> FALSE]
       ELSE UNCHANGED <<child, stdinOpen, outOpen>>
    /\ UNCHANGED <<env, runPc, produced, procWrites, inVars, outVars, broadcaster, events,
                   broadcasts>>

\* ------------------------------------------------------------- the caller
\* The chunks the caller may pass to its next send: the empty string, or,
\* MaxSends times, a two-character text tagged with its index ("A\u00c8",
\* "B\u00c9", ..).
NextChunks ==
    {<<>>} \cup (IF Len(accepted) < MaxSends
                 THEN {<<65 + Len(accepted), 200 + Len(accepted)>>} ELSE {})

\* StdinSender::send(input): self.0.send(input) fails once the Receiver is
\* dropped, and appends to the queue otherwise.
Send(input) ==
    /\ (IF input = <<>> THEN "send_empty" ELSE "send") \in env
    /\ runPc = "returned"
    /\ tx_in
    /\ IF rx_in
       THEN /\ Len(chan_in) < MaxQueue
            /\ chan_in' = Append(chan_in, input)
            /\ accepted' = IF input /= <<>> THEN Append(accepted, input) ELSE accepted
            /\ lastSend' = "ok"
       ELSE /\ lastSend' = "err"
            /\ UNCHANGED <<chan_in, accepted>>
    /\ UNCHANGED <<env, runPc, procVars, tx_in, rx_in, stdinPc, stdin_text, pipeIn, outVars,
                   cancVars>>

\* the caller drops the StdinSender
DropStdin ==
    /\ "drop_stdin" \in env
    /\ runPc = "returned"
    /\ tx_in
    /\ tx_in' = FALSE
    /\ UNCHANGED <<env, runPc, procVars, rx_in, chan_in, stdinPc, stdin_text, accepted, pipeIn,
                   lastSend, outVars, cancVars>>

\* mutant of Recv: self.0.try_recv(), an empty queue is an error whether or
\* not the relay still holds the Sender
RecvFailsWhenEmpty(s) ==
    /\ "recv" \in env
    /\ runPc = "returned"
    /\ rx_out[s]
    /\ \/ /\ chan_out[s] /= <<>>
          /\ got' = [got EXCEPT ![s] = Append(@, Head(chan_out[s]))]
          /\ chan_out' = [chan_out EXCEPT ![s] = Tail(@)]
          /\ lastRecv' = [lastRecv EXCEPT ![s] = "ok"]
       \/ /\ chan_out[s] = <<>>
          /\ lastRecv' = [lastRecv EXCEPT ![s] = "err"]
          /\ UNCHANGED <<got, chan_out>>
    /\ UNCHANGED <<env, runPc, procVars, inVars, consumed, tx_out, rx_out, outPc, buf, readLog,
                   cancVars>>

\* StdoutReceiver::recv / StderrReceiver::recv: self.0.recv() blocks while
\* the queue is empty and the Sender alive.
Recv(s) ==
    /\ "recv" \in env
    /\ runPc = "returned"
    /\ rx_out[s]
    /\ \/ /\ chan_out[s] /= <<>>
          /\ got' = [got EXCEPT ![s] = Append(@, Head(chan_out[s]))]
          /\ chan_out' = [chan_out EXCEPT ![s] = Tail(@)]
          /\ lastRecv' = [lastRecv EXCEPT ![s] = "ok"]
       \/ /\ chan_out[s] = <<>>
          /\ ~tx_out[s]
          /\ lastRecv' = [lastRecv EXCEPT ![s] = "err"]
          /\ UNCHANGED <<got, chan_out>>
    /\ UNCHANGED <<env, runPc, procVars, inVars, consumed, tx_out, rx_out, outPc, buf, readLog,
                   cancVars>>

\* the caller drops the StdoutReceiver / StderrReceiver: the queued
\* messages are discarded with it
DropOut(s) ==
    /\ "drop_out" \in env
    /\ runPc = "returned"
    /\ rx_out[s]
    /\ rx_out' = [rx_out EXCEPT ![s] = FALSE]
    /\ chan_out' = [chan_out EXCEPT ![s] = <<>>]
    /\ UNCHANGED <<env, runPc, procVars, inVars, consumed, tx_out, outPc, buf, readLog, got,
                   lastRecv, cancVars>>

\* broadcaster.broadcast(())
Broadcast ==
    /\ "broadcast" \in env
    /\ broadcaster
    /\ broadcasts < MaxBroadcasts
    /\ broadcasts' = broadcasts + 1
    /\ events' = IF cancPc = "exited" \/ runPc \in {"failed", "panicked"}
                 THEN events ELSE events + 1
    /\ UNCHANGED <<env, runPc, procVars, inVars, outVars, cancPc, broadcaster, kills>>

\* the Broadcaster is dropped
DropBroadcaster ==
    /\ "drop_broadcaster" \in env
    /\ broadcaster
    /\ broadcaster' = FALSE
    /\ UNCHANGED <<env, runPc, procVars, inVars, outVars, cancPc, events, broadcasts, kills>>

\* ------------------------------------------------------ the child process
\* the child writes n bytes on its stdout or stderr
ProcWrite(s, n) ==
    /\ (IF n = BigWrite THEN "write_big" ELSE "write") \in env
    /\ child = "running"
    /\ outOpen[s]
    /\ outPc[s] /= "exited"
    /\ procWrites < MaxProcWrites
    /\ procWrites' = procWrites + 1
    /\ produced' = [produced EXCEPT ![s] = @ + n]
    /\ UNCHANGED <<env, runPc, child, stdinOpen, outOpen, inVars, outVars, cancVars>>

\* the child closes its stdin
ProcCloseStdin ==
    /\ "close_stdin" \in env
    /\ child = "running"
    /\ stdinOpen
    /\ stdinOpen' = FALSE
    /\ UNCHANGED <<env, runPc, child, outOpen, produced, procWrites, inVars, outVars, cancVars>>

\* the child exits on its own: every pipe end it holds is closed
ProcExit ==
    /\ "exit" \in env
    /\ child = "running"
    /\ child' = "exited"
    /\ stdinOpen' = FALSE
    /\ outOpen' = [s \in Streams |-> FALSE]
    /\ UNCHANGED <<env, runPc, produced, procWrites, inVars, outVars, cancVars>>

\* --------------------------------------------------------- specifications
Next ==
    \/ \E validName \in BOOLEAN : RunPrepare(validName)
    \/ \E ok \in BOOLEAN : RunSpawn(ok)
    \/ RunSpawnStdin
    \/ \E s \in Streams : RunSpawnOut(s)
    \/ RunSpawnCanceller
    \/ RunReturn
    \/ StdinRecv
    \/ StdinRecvClosed
    \/ StdinWrite
    \/ \E s \in Streams : OutRead(s)
    \/ \E s \in Streams : OutReadErr(s)
    \/ \E s \in Streams : OutSend(s)
    \/ CancRecv
    \/ CancKill
    \/ \E input \in NextChunks : Send(input)
    \/ DropStdin
    \/ \E s \in Streams : Recv(s)
    \/ \E s \in Streams : DropOut(s)
    \/ Broadcast
    \/ DropBroadcaster
    \/ \E s \in Streams, n \in WriteSizes : ProcWrite(s, n)
    \/ ProcCloseStdin
    \/ ProcExit

Spec == Init /\ [][Next]_vars

\* The threads are scheduled fairly: a worker that can take its next step
\* eventually takes it.  Nothing obliges the caller, the child or the
\* broadcaster to act.
WorkerFairness ==
    /\ WF_vars(StdinRecv)
    /\ WF_vars(StdinRecvClosed)
    /\ WF_vars(StdinWrite)
    /\ \A s \in Streams : WF_vars(OutRead(s)) /\ WF_vars(OutSend(s))
    /\ WF_vars(CancRecv)
    /\ WF_vars(CancKill)

LiveSpec == Spec /\ WorkerFairness

\* ... and a caller that holds an output handle keeps calling recv on it
LiveRecvSpec == LiveSpec /\ \A s \in Streams : WF_vars(Recv(s))

\* ... and a caller that holds the stdin handle keeps calling send on it
LiveSendSpec == LiveSpec /\ WF_vars(\E input \in NextChunks : Send(input))

\* Only Command::run itself is scheduled: the caller's thread runs on,
\* while nothing obliges the child or any of the four workers to take a step.
LiveRunSpec ==
    /\ Spec
    /\ WF_vars(RunSpawnStdin)
    /\ \A s \in Streams : WF_vars(RunSpawnOut(s))
    /\ WF_vars(RunSpawnCanceller)
    /\ WF_vars(RunReturn)

\* ------------------------------------------------------------------ claims
NoWorkerStarted ==
    /\ stdinPc = "none"
    /\ \A s \in Streams : outPc[s] = "none"
    /\ cancPc = "none"

StdinRelayTerminated == stdinPc \in {"exited", "panicked"}

\* C1: run ends in one of two ways only: a spawn error with no relay and no
\* watcher started, or the three handles; it never crashes.
C1_TwoOutcomes ==
    /\ runPc /= "panicked"
    /\ runPc = "failed" => NoWorkerStarted

\* C4: the bytes written to the child's stdin pipe are a prefix of the
\* concatenation, in send order, of the chunks send accepted.
C4_StdinPrefix == IsPrefix(pipeIn, ConcatBytes(accepted))

C4_Witness ==
    /\ Len(accepted) >= 2
    /\ pipeIn = ConcatBytes(accepted)

\* C5: on each of stdout and stderr, what recv has returned is a prefix of
\* the decoded chunks the relay read from that pipe, in read order.
C5_OutPrefix ==
    \A s \in Streams :
        /\ Len(got[s]) <= Len(readLog[s])
        /\ \A i \in 1..Len(got[s]) : got[s][i] = from_utf8_lossy(readLog[s][i])

\* two stderr chunks received in order while an earlier stdout chunk waits
C5_Witness ==
    /\ Len(got["err"]) >= 2
    /\ got["out"] = <<>>
    /\ chan_out["out"] /= <<>>

\* The subscription's backlog as a run with a single broadcast would see
\* it: at most one event, and none once the watcher has received one.
EventsOnce == IF cancPc \in {"none", "recv"} /\ events > 0 THEN 1 ELSE 0
BroadcastsOnce == IF broadcasts > 0 THEN 1 ELSE 0

\* every variable but the subscription's backlog and the broadcast count
allButBacklog ==
    <<env, runPc, procVars, inVars, outVars, cancPc, broadcaster, kills>>

\* C6: a second broadcast is equivalent to none.  pid.kill() is called at
\* most once, and every step of a run with several broadcasts is a step of
\* a run with one: a further broadcast changes nothing but the backlog, the
\* watcher receives exactly as it would with one event, and no other step
\* reads or changes what the watcher can receive.
C6_SecondBroadcastNoOp ==
    /\ [](kills <= 1)
    /\ [][ /\ broadcasts' /= broadcasts =>
                /\ UNCHANGED allButBacklog
                /\ \/ /\ BroadcastsOnce = 0
                      /\ BroadcastsOnce' = 1
                      /\ EventsOnce' = (IF cancPc = "exited" \/ runPc \in {"failed", "panicked"}
                                        THEN 0 ELSE 1)
                   \/ /\ BroadcastsOnce = 1
                      /\ BroadcastsOnce' = 1
                      /\ EventsOnce' = EventsOnce
           /\ (cancPc = "recv" /\ cancPc' /= "recv") =>
                /\ BroadcastsOnce' = BroadcastsOnce
                /\ \/ EventsOnce = 1 /\ EventsOnce' = 0 /\ cancPc' = "kill"
                   \/ EventsOnce = 0 /\ ~broadcaster /\ EventsOnce' = 0 /\ cancPc' = "exited"
           /\ (broadcasts' = broadcasts /\ ~(cancPc = "recv" /\ cancPc' /= "recv")) =>
                /\ EventsOnce' = EventsOnce
                /\ BroadcastsOnce' = BroadcastsOnce
         ]_vars

\* both events published while the child runs, one received, the child killed
C6_Witness ==
    /\ broadcasts = 2
    /\ events = 1
    /\ kills = 1
    /\ child = "killed"
    /\ cancPc = "exited"

\* C10: send fails whenever the stdin relay has terminated, and otherwise
\* succeeds and appends the chunk at the tail of the stdin channel.
C10_SendResult ==
    [][ \A input \in NextChunks :
            Send(input) =>
                IF StdinRelayTerminated \/ stdinPc = "none"
                THEN lastSend' = "err" /\ chan_in' = chan_in
                ELSE lastSend' = "ok" /\ chan_in' = Append(chan_in, input)
      ]_vars

\* a send accepted while the relay ran, and a later one refused after the
\* relay's write failed
C10_Witness ==
    /\ accepted /= <<>>
    /\ stdinPc = "panicked"
    /\ lastSend = "err"

\* C8: pid.kill() is called, and the child killed, only after a broadcast;
\* when the Broadcaster is dropped with nothing published the watcher ends
\* without a kill, and a child that was running is left running by it.
C8_KillOnlyOnEvent ==
    /\ [](kills > 0 => broadcasts > 0)
    /\ [](child = "killed" => kills > 0)
    /\ [](cancPc = "exited" /\ broadcasts = 0 => kills = 0 /\ child /= "killed")
    /\ [][cancPc = "recv" /\ cancPc' = "exited" => UNCHANGED <<procVars, kills>>]_vars
    /\ (cancPc = "recv" /\ ~broadcaster /\ broadcasts = 0) ~> (cancPc = "exited")

\* the watcher has ended on the closed subscription, the child still runs
C8_Witness ==
    /\ cancPc = "exited"
    /\ broadcasts = 0
    /\ ~broadcaster
    /\ kills = 0
    /\ child = "running"

\* C2: once an event is broadcast while the child runs (run having
\* returned), pid.kill() is eventually called and the child no longer
\* runs, both output relays end, and a caller that keeps calling recv gets
\* every chunk the relay read and then the end-of-channel error.
C2_CancelEndsOutput ==
    (runPc = "returned" /\ child = "running" /\ broadcasts > 0)
        ~> /\ kills >= 1
           /\ child /= "running"
           /\ \A s \in Streams :
                 /\ outPc[s] = "exited"
                 /\ (rx_out[s] /\ "recv" \in env) =>
                        /\ lastRecv[s] = "err"
                        /\ chan_out[s] = <<>>
                        /\ got[s] = DecodeAll(readLog[s])

\* the child was killed, and recv has returned chunks and then the error on
\* both handles
C2_Witness ==
    /\ child = "killed"
    /\ \A s \in Streams : lastRecv[s] = "err" /\ got[s] /= <<>>

PendingNonEmpty ==
    \/ stdinPc = "write" /\ stdin_text /= <<>>
    \/ \E i \in 1..Len(chan_in) : chan_in[i] /= <<>>

\* C3 as stated: after the kill a caller that keeps calling send sees its
\* sends fail eventually, and no send succeeds after one has failed.
C3_SendsEventuallyFail ==
    /\ (child = "killed" /\ runPc = "returned" /\ "send_empty" \in env)
           ~> StdinRelayTerminated
    /\ [][lastSend = "err" => lastSend' = "err"]_vars

\* C3 as amended: after the kill a non-empty chunk, queued or sent later,
\* ends the stdin relay, so that every later send fails; no send succeeds
\* after one has failed.  (An empty chunk causes no write and no failure.)
C3_NonEmptySendsEventuallyFail ==
    /\ (child = "killed" /\ runPc = "returned" /\ PendingNonEmpty)
           ~> (StdinRelayTerminated /\ ~rx_in)
    /\ [][lastSend = "err" => lastSend' = "err"]_vars

\* a send has failed after the kill made the relay's write fail
C3_Witness ==
    /\ child = "killed"
    /\ kills = 1
    /\ stdinPc = "panicked"
    /\ lastSend = "err"

Dropped(s) == runPc = "returned" /\ ~rx_out[s]
SomeDropped == \E s \in Streams : Dropped(s)

\* the first k accepted chunks have been written to the child's stdin pipe
WrittenUpTo(k) ==
    /\ Len(accepted) >= k
    /\ IsPrefix(ConcatBytes(SubSeq(accepted, 1, k)), pipeIn)

\* C7: with the stdout (or stderr) Receiver dropped, the relay of that
\* stream ends once it has output to forward; chunks accepted by send are
\* still written while the child keeps its stdin open; a broadcast still
\* gets the child killed; and the drop and the relay's end leave the other
\* relays and the watcher where they are.
C7_DropOutBlocksNothing ==
    /\ \A s \in Streams :
           (Dropped(s) /\ (outPc[s] = "send" \/ (outPc[s] = "read" /\ Avail(s) > 0)))
               ~> (outPc[s] = "exited")
    /\ \A k \in 1..MaxSends :
           (SomeDropped /\ Len(accepted) >= k) ~> (WrittenUpTo(k) \/ ~stdinOpen)
    /\ (SomeDropped /\ child = "running" /\ broadcasts > 0)
           ~> (kills >= 1 /\ child /= "running")
    /\ [][ \A s \in Streams :
               (/\ runPc = "returned"
                /\ \/ rx_out[s] /\ ~rx_out'[s]
                   \/ ~rx_out[s] /\ outPc'[s] /= outPc[s])
               => /\ \A t \in Streams \ {s} : outPc'[t] = outPc[t] /\ tx_out'[t] = tx_out[t]
                  /\ stdinPc' = stdinPc
                  /\ rx_in' = rx_in
                  /\ cancPc' = cancPc
         ]_vars

\* stdout dropped and its relay ended by the failed send; afterwards (the
\* relay of stderr still reading) two chunks were written and the child killed
C7_Witness ==
    /\ Dropped("out")
    /\ outPc["out"] = "exited"
    /\ readLog["out"] /= <<>>
    /\ outPc["err"] = "read"
    /\ Len(accepted) = 2
    /\ pipeIn = ConcatBytes(accepted)
    /\ child = "killed"

\* C9 as stated: after the caller drops a handle while the child runs, the
\* relay of that handle eventually ends.
C9_DropEndsRelay ==
    /\ (runPc = "returned" /\ ~tx_in /\ child = "running") ~> StdinRelayTerminated
    /\ \A s \in Streams : (Dropped(s) /\ child = "running") ~> (outPc[s] = "exited")

\* C9 as amended: the stdin relay ends after the Sender is dropped; a
\* stdout/stderr relay ends after the Receiver is dropped once it has a
\* chunk to send or the stream has ended, and while it waits in read only
\* the end of the stream or a read error ends it.
C9_DropEndsRelayOnNextChunk ==
    /\ (runPc = "returned" /\ ~tx_in) ~> StdinRelayTerminated
    /\ \A s \in Streams :
           (Dropped(s) /\ (outPc[s] = "send" \/ Avail(s) > 0 \/ ~outOpen[s]))
               ~> (outPc[s] = "exited")
    /\ [][ \A s \in Streams :
               (outPc[s] = "read" /\ outPc'[s] = "exited")
               => (Avail(s) = 0 /\ ~outOpen[s]) \/ "read_error" \in env ]_vars

\* the stdout relay has ended on the dropped Receiver while the child runs
C9_Witness ==
    /\ Dropped("out")
    /\ outPc["out"] = "exited"
    /\ child = "running"
    /\ outOpen["out"]

\* C11: recv on the stdout (or stderr) handle fails only once the relay has
\* ended and the channel is empty, after every chunk the relay sent has been
\* returned in order; a recv step never fails while the relay runs.
C11_RecvFailsOnlyAtEnd ==
    /\ [](\A s \in Streams :
             lastRecv[s] = "err" =>
                 /\ outPc[s] = "exited"
                 /\ ~tx_out[s]
                 /\ chan_out[s] = <<>>
                 /\ got[s] = DecodeAll(readLog[s]))
    /\ [][ \A s \in Streams :
               (lastRecv'[s] = "err" /\ lastRecv[s] /= "err")
               => outPc[s] = "exited" /\ chan_out[s] = <<>> /\ got'[s] = got[s] ]_vars

\* stdout's recv failed after its two chunks, the second one read after the
\* first had been received; stderr's relay still runs
C11_Witness ==
    /\ lastRecv["out"] = "err"
    /\ Len(got["out"]) = 2
    /\ outPc["err"] = "read"
    /\ lastRecv["err"] = "none"
    /\ child = "exited"

AllWorkersStarted ==
    /\ stdinPc /= "none"
    /\ \A s \in Streams : outPc[s] /= "none"
    /\ cancPc /= "none"

\* C12: after a successful spawn run starts the three relays and the
\* watcher and returns without waiting: by its return all four are started,
\* each of its steps can be taken whatever the child and the workers have or
\* have not done, and it returns even when none of them ever takes a step.
C12_RunReturnsWithoutWaiting ==
    /\ [](runPc \in {"ret", "returned"} => AllWorkersStarted)
    /\ [](runPc = "stdin" => ENABLED RunSpawnStdin)
    /\ [](\A s \in Streams : runPc = RunPcOf(s) => ENABLED RunSpawnOut(s))
    /\ [](runPc = "canceller" => ENABLED RunSpawnCanceller)
    /\ [](runPc = "ret" => ENABLED RunReturn)
    /\ (runPc = "stdin") ~> (runPc = "returned")

\* run has returned; the child runs and no worker has taken a step
C12_Witness ==
    /\ runPc = "returned"
    /\ child = "running"
    /\ stdinPc = "recv"
    /\ \A s \in Streams : outPc[s] = "read" /\ readLog[s] = <<>>
    /\ cancPc = "recv"
    /\ procWrites = 0

\* C13: the stdin relay ends only from its receive with the channel closed
\* and drained, or from a write that failed; a step in which the child
\* exits or is killed leaves it where it is; and while the caller holds the
\* handle and has sent nothing the relay stays in its receive, whatever has
\* become of the child.
C13_StdinRelayEndsOnlyOnCloseOrWriteError ==
    /\ [][ (~StdinRelayTerminated /\ StdinRelayTerminated')
            => \/ /\ stdinPc = "recv"
                  /\ ~tx_in
                  /\ chan_in = <<>>
                  /\ stdinPc' = "exited"
               \/ /\ stdinPc = "write"
                  /\ ~WriteAllOk(as_bytes(stdin_text))
                  /\ stdinPc' = "panicked" ]_vars
    /\ [][ child' /= child => stdinPc' = stdinPc /\ rx_in' = rx_in ]_vars
    /\ [](runPc = "returned" /\ tx_in /\ lastSend = "none" => stdinPc = "recv" /\ rx_in)

\* the child was killed and every other worker has ended; the stdin relay
\* still waits in its receive for a caller that sends nothing
C13_Witness ==
    /\ child = "killed"
    /\ cancPc = "exited"
    /\ \A s \in Streams : outPc[s] = "exited"
    /\ tx_in
    /\ lastSend = "none"
    /\ stdinPc = "recv"

\* C14: a failed write to the child's stdin ends the stdin relay normally,
\* in the terminal state it reaches when the channel is closed and not by a
\* crash of the thread; the pipe end and the Receiver are released, no
\* further chunk is written and the caller is told nothing.
C14_WriteFailureEndsNormally ==
    [][ (stdinPc = "write" /\ ~WriteAllOk(as_bytes(stdin_text)) /\ stdinPc' /= stdinPc)
        => /\ stdinPc' = "exited"
           /\ ~rx_in'
           /\ pipeIn' = pipeIn
           /\ lastSend' = lastSend ]_vars

\* C15: after the caller drops the stdin handle the relay does not stop
\* while a chunk is still queued; when it stops on the closed channel every
\* accepted chunk has been written, in order, and the pipe end and the
\* Receiver are released; and it does stop, unless the child closes its
\* stdin first.
C15_DropStdinDrainsFirst ==
    /\ [](stdinPc = "exited" =>
             /\ chan_in = <<>>
             /\ pipeIn = ConcatBytes(accepted)
             /\ ~rx_in)
    /\ [][ (~tx_in /\ (chan_in /= <<>> \/ stdinPc = "write")) => stdinPc' /= "exited" ]_vars
    /\ (runPc = "returned" /\ ~tx_in)
           ~> ((stdinPc = "exited" /\ pipeIn = ConcatBytes(accepted)) \/ ~stdinOpen)

\* the relay has stopped on the closed channel with both chunks written,
\* the child still runs and reads its stdin
C15_Witness ==
    /\ ~tx_in
    /\ stdinPc = "exited"
    /\ Len(accepted) = 2
    /\ pipeIn = ConcatBytes(accepted)
    /\ child = "running"
    /\ stdinOpen

\* C16: a send that fails on the dropped Receiver is the relay's last
\* action: that step ends the relay and releases its Sender, and an ended
\* relay never again reads from the pipe or puts a chunk on the channel.
C16_FailedSendIsLast ==
    /\ [][ \A s \in Streams :
               (outPc[s] = "send" /\ ~rx_out[s] /\ outPc'[s] /= "send")
               => /\ outPc'[s] = "exited"
                  /\ ~tx_out'[s]
                  /\ consumed'[s] = consumed[s]
                  /\ chan_out'[s] = chan_out[s] ]_vars
    /\ [][ \A s \in Streams :
               outPc[s] = "exited"
               => /\ outPc'[s] = "exited"
                  /\ ~tx_out'[s]
                  /\ consumed'[s] = consumed[s]
                  /\ readLog'[s] = readLog[s]
                  /\ Len(chan_out'[s]) <= Len(chan_out[s]) ]_vars

\* stderr's relay has ended on a failed send while the child runs, leaving
\* in the pipe what the child wrote after the relay's last read
C16_Witness ==
    /\ Dropped("err")
    /\ outPc["err"] = "exited"
    /\ Len(readLog["err"]) = 1
    /\ Avail("err") > 0
    /\ child = "running"

\* the messages the relay of s has put on its channel, while the caller
\* holds the Receiver
Sent(s) == got[s] \o chan_out[s]

RECURSIVE ConcatChunks(_)
ConcatChunks(chunks) ==
    IF chunks = <<>> THEN <<>> ELSE Head(chunks) \o ConcatChunks(Tail(chunks))

\* C17: every read the relay forwards has 1 to 128 bytes and the reads are
\* consecutive pieces of the pipe's data; the messages on the channel are,
\* one for one and in order, the non-empty decodings of those reads (all of
\* them, but the one the relay is about to send); a message is added only
\* by the send of the chunk just read; the end of the stream or a read error
\* ends the relay with nothing sent and nothing reported to the caller.
C17_OneMessagePerRead ==
    /\ [](\A s \in Streams :
             /\ \A i \in 1..Len(readLog[s]) :
                    Len(readLog[s][i]) >= 1 /\ Len(readLog[s][i]) <= BufSize
             /\ ConcatChunks(readLog[s]) = SubSeq(ChildOutput[s], 1, consumed[s])
             /\ rx_out[s] =>
                    /\ Len(Sent(s)) = Len(readLog[s]) - (IF outPc[s] = "send" THEN 1 ELSE 0)
                    /\ \A i \in 1..Len(Sent(s)) :
                           /\ Sent(s)[i] = from_utf8_lossy(readLog[s][i])
                           /\ Sent(s)[i] /= <<>>)
    /\ [][ \A s \in Streams :
               Len(chan_out'[s]) > Len(chan_out[s])
               => /\ outPc[s] = "send"
                  /\ buf[s] = readLog[s][Len(readLog[s])]
                  /\ chan_out'[s] = Append(chan_out[s], from_utf8_lossy(buf[s])) ]_vars
    /\ [][ \A s \in Streams :
               (outPc[s] = "read" /\ outPc'[s] = "exited")
               => /\ chan_out'[s] = chan_out[s]
                  /\ readLog'[s] = readLog[s]
                  /\ lastRecv' = lastRecv
                  /\ lastSend' = lastSend ]_vars

\* a write of 130 bytes was forwarded as a chunk of 128 bytes and one of 2,
\* and the relay ended at the end of the stream
C17_Witness ==
    /\ Len(readLog["out"]) = 2
    /\ Len(readLog["out"][1]) = BufSize
    /\ Len(readLog["out"][2]) = 2
    /\ Len(chan_out["out"]) = 2
    /\ outPc["out"] = "exited"

\* C18: the child's own exit leaves the watcher waiting; the watcher leaves
\* its wait only on an event or on the closed subscription; with the child
\* gone, an event still makes it call pid.kill() once and end, and that
\* kill changes nothing of run, the child, the channels or the relays.
C18_KillAfterExitIsHarmless ==
    /\ [][ (child = "running" /\ child' = "exited")
            => cancPc' = cancPc /\ events' = events /\ kills' = kills ]_vars
    /\ [][ (cancPc = "recv" /\ cancPc' /= "recv") => (events > 0 \/ ~broadcaster) ]_vars
    /\ [][ (cancPc = "kill" /\ child = "exited" /\ cancPc' /= cancPc)
            => /\ cancPc' = "exited"
               /\ kills' = kills + 1
               /\ UNCHANGED <<runPc, procVars, inVars, outVars>> ]_vars
    /\ (child = "exited" /\ cancPc = "recv" /\ events > 0)
           ~> (cancPc = "exited" /\ kills = 1 /\ child = "exited")

\* the child exited by itself and the three relays ended; the watcher
\* called kill on the child that was gone and ended
C18_Witness ==
    /\ child = "exited"
    /\ StdinRelayTerminated
    /\ \A s \in Streams : outPc[s] = "exited"
    /\ kills = 1
    /\ cancPc = "exited"

\* the two ends and the queue of each of the three channels
channelVars == <<tx_in, rx_in, chan_in, tx_out, rx_out, chan_out>>

\* a step of the caller on a handle: run has returned and neither the
\* child nor a worker moves
CallerStep ==
    /\ runPc = "returned"
    /\ UNCHANGED <<procVars, stdinPc, outPc, cancVars>>

RunFails == runPc = "spawn" /\ runPc' = "failed"

\* C19: no step of the watcher (its receive, its kill, its end) changes the
\* ends or the queue of any channel; an end of a channel is closed only by
\* its owner: a Sender or Receiver of a relay in the step that ends that
\* relay, a handle by the caller (or by run when the spawn fails).
C19_WatcherTouchesNoChannel ==
    /\ [][ (cancPc' /= cancPc \/ kills' /= kills) => UNCHANGED channelVars ]_vars
    /\ [][ /\ (tx_in /\ ~tx_in') => (RunFails \/ CallerStep)
           /\ (rx_in /\ ~rx_in') => (RunFails \/ (~StdinRelayTerminated /\ StdinRelayTerminated'))
           /\ \A s \in Streams :
                  /\ (tx_out[s] /\ ~tx_out'[s])
                         => (RunFails \/ (outPc[s] /= "exited" /\ outPc'[s] = "exited"))
                  /\ (rx_out[s] /\ ~rx_out'[s]) => (RunFails \/ CallerStep) ]_vars

\* the watcher killed the child and ended; every channel end is still open
\* and stdout's channel still holds a chunk
C19_Witness ==
    /\ child = "killed"
    /\ cancPc = "exited"
    /\ tx_in /\ rx_in
    /\ \A s \in Streams : tx_out[s] /\ rx_out[s]
    /\ chan_out["out"] /= <<>>

\* a caller that holds the Receiver of s and has never called recv on it
NeverReceived(s) == rx_out[s] /\ lastRecv[s] = "none"

SomeBacklog == \E s \in Streams : NeverReceived(s) /\ chan_out[s] /= <<>>

\* C20: a relay's send can always be taken, however many chunks wait in the
\* channel; for a caller that never calls recv the channel holds every
\* chunk sent so far; and with no recv ever called (no fairness for the
\* caller) the relays still read all the child writes, the stdin relay
\* still completes its writes and a broadcast still gets the child killed.
C20_RelaysNeverWaitForCaller ==
    /\ [](\A s \in Streams : outPc[s] = "send" => ENABLED OutSend(s))
    /\ [](\A s \in Streams :
             NeverReceived(s) =>
                 Len(chan_out[s]) = Len(readLog[s]) - (IF outPc[s] = "send" THEN 1 ELSE 0))
    /\ \A s \in Streams :
           (outPc[s] \in {"read", "send"} /\ Avail(s) > 0)
               ~> (Avail(s) = 0 \/ outPc[s] = "exited")
    /\ (SomeBacklog /\ stdinPc = "write") ~> (stdinPc /= "write")
    /\ (SomeBacklog /\ child = "running" /\ events > 0 /\ cancPc = "recv")
           ~> (kills >= 1 /\ child /= "running")

\* the caller never called recv: two chunks wait on stdout's channel, the
\* stdin relay has written a chunk and the child was killed
C20_Witness ==
    /\ \A s \in Streams : NeverReceived(s)
    /\ Len(chan_out["out"]) = 2
    /\ Len(accepted) >= 1
    /\ pipeIn = ConcatBytes(accepted)
    /\ kills = 1
    /\ child = "killed"

====
